---- MODULE Spec2Model ----
(***************************************************************************)
(* The assign! macro of src/lib.rs: the macro_rules matcher and            *)
(* transcriber (compile time) and the evaluation of the block it expands   *)
(* to (run time).                                                          *)
(*                                                                         *)
(* An invocation is `assign!(base, { clause, ... })`.  The transcriber     *)
(* turns it into a statement list `let mut item = base; item.f = e; ...;   *)
(* item`; the host compiler resolves the names of that list; the block is  *)
(* then evaluated one statement per step.                                  *)
(*                                                                         *)
(* Values.  Scalars are integers; Option<T> is encoded None = NoneVal,     *)
(* Some(k) = k.  A struct value is a record over Fields.                   *)
(***************************************************************************)
EXTENDS Integers, Sequences, FiniteSets, TLC

\* ------------------------------------------------------------------ bounds
MaxClauses == 2          \* longest clause list of an invocation
MaxLit == 1              \* literals 1..MaxLit may appear as value expressions

\* ------------------------------------------------- the record under update
NoneVal == -1
Fields == {"a", "b", "c", "item"}
\* SomeStruct::default(), with one more defaulted field called `item` so
\* that a field may carry the name of the macro's local.
DefaultStruct == [f \in Fields |-> IF f \in {"a", "item"} THEN 0 ELSE NoneVal]

\* ------------------------------------------------------------- identifiers
\* A macro_rules identifier is a name together with the syntax context it
\* was written in: "call" for tokens of the invocation, "def" for tokens
\* written inside the macro definition.
Ident(n, c) == [name |-> n, ctx |-> c]
NoIdent == Ident("", "call")

\* ------------------------------------------------------------- expressions
\* kind: "lit" (a literal), "var" (a variable reference), "tick" (an
\* expression with a side effect: bumps a counter and yields it), "panic"
\* (an expression that never yields), "default" (SomeStruct::default()),
\* "new" (a constructor with a side effect: bumps the counter and stores it
\* in field a), "none" (no expression: the value slot of a shorthand clause).
Expr(k, v, id) == [kind |-> k, val |-> v, id |-> id]
Lit(v) == Expr("lit", v, NoIdent)
Var(id) == Expr("var", 0, id)
Tick == Expr("tick", 0, NoIdent)
Panic == Expr("panic", 0, NoIdent)
DefaultExpr == Expr("default", 0, NoIdent)
NewExpr == Expr("new", 0, NoIdent)
NoExpr == Expr("none", 0, NoIdent)

\* The variables the call site has in scope (tests: `let a = 5;`), as a scope
\* frame: a function from identifiers to values.  No variable named c is in
\* scope.
CallFrame == [id \in {Ident(n, "call") : n \in {"a", "b", "item"}} |->
                 CASE id.name = "a" -> 5 [] id.name = "b" -> 6 [] OTHER -> 7]

ValueExprs == {Lit(v) : v \in 1..MaxLit} \cup {Var(Ident("item", "call")), Tick, Panic}
BaseExprs == {DefaultExpr, NewExpr}

\* ------------------------------------------------------------- invocations
\* A clause is `field: value` (hasValue) or the bare `field`.
Clause(f, h, e) == [field |-> f, hasValue |-> h, value |-> e]
Clauses ==
    {Clause(Ident(f, "call"), TRUE, e) : f \in Fields, e \in ValueExprs}
    \cup {Clause(Ident(f, "call"), FALSE, NoExpr) : f \in Fields}
ClauseLists == UNION {[1..n -> Clauses] : n \in 0..MaxClauses}
Invocation(b, cs, t) == [base |-> b, clauses |-> cs, trailing |-> t]
Invocations ==
    {Invocation(b, cs, t) : b \in BaseExprs, cs \in ClauseLists, t \in BOOLEAN}

\* --------------------------------------------------------- the transcriber
\* Statements of an expansion.  op: "let" (let mut id = value), "assign"
\* (id.field = value), "yield" (the block's tail expression id).
Stmt(o, id, f, e) == [op |-> o, id |-> id, field |-> f, value |-> e]

\* A faulty variant of ItemLocal: the local spelled with a call-site identifier, as a
\* macro without hygiene would.
ItemCallSite == Ident("item", "call")

\* The identifier `item` the first arm writes: a token of the definition.
ItemLocal == Ident("item", "def")

\* The token list `@assign item $field $( : $value )?` of a nested call.
AssignCall(item, c) == [item |-> item, field |-> c.field,
                        hasValue |-> c.hasValue, value |-> c.value]

\* A faulty variant of ExpandAssign: arm 2 drops `$value` and transcribes like arm 3.
ExpandAssignValueDropped(call) ==
    Stmt("assign", call.item, call.field.name, Var(call.field))

\* A faulty variant of ExpandAssign: arm 3 reads a definition-site identifier instead
\* of the caller's `$field`.
ExpandAssignDefSite(call) ==
    IF call.hasValue
    THEN Stmt("assign", call.item, call.field.name, call.value)
    ELSE Stmt("assign", call.item, call.field.name, Var(Ident(call.field.name, "def")))

\* Arms 2 and 3 of the macro.
\*   (@assign $item:ident $field:ident : $value:expr) => $item.$field = $value;
\*   (@assign $item:ident $field:ident)               => $item.$field = $field;
ExpandAssign(call) ==
    IF call.hasValue
    THEN Stmt("assign", call.item, call.field.name, call.value)
    ELSE Stmt("assign", call.item, call.field.name, Var(call.field))

\* A faulty variant of MatchesMain: the repetition written `,*` instead of `,+`.
MatchesMainStar(inv) == Len(inv.clauses) >= 0

\* The matcher of arm 1: `$( ... ),+ $(,)?` needs at least one clause, the
\* trailing comma is optional.
MatchesMain(inv) == Len(inv.clauses) >= 1

\* A faulty variant of ExpandMain: the base bound inside the repetition, once per
\* clause.
ExpandMainRebind(inv) ==
    [j \in 1..(2 * Len(inv.clauses)) |->
        IF j % 2 = 1 THEN Stmt("let", ItemLocal, "", inv.base)
        ELSE ExpandAssign(AssignCall(ItemLocal, inv.clauses[j \div 2]))]
    \o <<Stmt("yield", ItemLocal, "", NoExpr)>>

\* A faulty variant of ExpandMain: the last clause is not transcribed.
ExpandMainDropLast(inv) ==
    <<Stmt("let", ItemLocal, "", inv.base)>>
    \o [i \in 1..(Len(inv.clauses) - 1) |->
          ExpandAssign(AssignCall(ItemLocal, inv.clauses[i]))]
    \o <<Stmt("yield", ItemLocal, "", NoExpr)>>

\* A faulty variant of ExpandMain: the clauses transcribed in reverse order.
ExpandMainReversed(inv) ==
    <<Stmt("let", ItemLocal, "", inv.base)>>
    \o [i \in 1..Len(inv.clauses) |->
          ExpandAssign(AssignCall(ItemLocal, inv.clauses[Len(inv.clauses) + 1 - i]))]
    \o <<Stmt("yield", ItemLocal, "", NoExpr)>>

\* The transcriber of arm 1.
ExpandMain(inv) ==
    <<Stmt("let", ItemLocal, "", inv.base)>>
    \o [i \in 1..Len(inv.clauses) |-> ExpandAssign(AssignCall(ItemLocal, inv.clauses[i]))]
    \o <<Stmt("yield", ItemLocal, "", NoExpr)>>

\* ------------------------------------------------------- the host compiler
\* Name resolution: the innermost frame of the scope stack that binds id, 0
\* when none does.
Lookup(id, sc) ==
    LET hits == {k \in 1..Len(sc) : id \in DOMAIN sc[k]}
    IN IF hits = {} THEN 0 ELSE CHOOSE k \in hits : \A j \in hits : j <= k

\* What the host compiler checks on an expansion `{ let mut L = base; ...; L }`
\* written where the frames of sc are in scope: each assigned place
\* resolves to the struct local, each variable of a value expression
\* resolves to a scalar of the call site (an unknown name is a resolution
\* error, the struct local in a scalar field a type error).
HostAccepts(b, sc) ==
    LET inner == sc \o <<[id \in {b[1].id} |-> DefaultStruct]>>
    IN \A i \in 2..(Len(b) - 1) :
          /\ Lookup(b[i].id, inner) = Len(inner)
          /\ b[i].value.kind = "var" =>
                 Lookup(b[i].value.id, inner) \in 1..Len(sc)

\* ---------------------------------------------------------------- run time
\* Evaluation of an expression: whether it yields, its value, the counter
\* after its side effect.
Eval(e, sc, cnt) ==
    CASE e.kind = "lit" -> [ok |-> TRUE, val |-> e.val, counter |-> cnt]
      [] e.kind = "var" ->
            [ok |-> TRUE, val |-> sc[Lookup(e.id, sc)][e.id], counter |-> cnt]
      [] e.kind = "tick" -> [ok |-> TRUE, val |-> cnt + 1, counter |-> cnt + 1]
      [] e.kind = "default" -> [ok |-> TRUE, val |-> DefaultStruct, counter |-> cnt]
      [] e.kind = "new" ->
            [ok |-> TRUE, val |-> [DefaultStruct EXCEPT !.a = cnt + 1],
             counter |-> cnt + 1]
      [] OTHER -> [ok |-> FALSE, val |-> 0, counter |-> cnt]

Event(ev, e, f) == [ev |-> ev, expr |-> e, field |-> f]

\* The run-time state of one evaluation of an expansion.
Machine(p, i, c, sc, l, r) ==
    [pc |-> p, ip |-> i, counter |-> c, scope |-> sc, log |-> l, result |-> r]

\* `let mut item = $initial_value;`: evaluate the base, open the block's
\* frame with the local bound to it.
ExecLet(s, m) ==
    LET r == Eval(s.value, m.scope, m.counter)
    IN Machine("running", m.ip + 1, r.counter,
               m.scope \o <<[id \in {s.id} |-> r.val]>>,
               Append(m.log, Event("base", s.value, "")), m.result)

\* A faulty variant of ExecAssign: a value that panics ends the block with the local
\* as its value.
ExecAssignYieldOnPanic(s, m) ==
    LET r == Eval(s.value, m.scope, m.counter)
        k == Lookup(s.id, m.scope)
    IN IF r.ok
       THEN Machine("running", m.ip + 1, r.counter,
                    [m.scope EXCEPT ![k][s.id][s.field] = r.val],
                    m.log \o <<Event("eval", s.value, ""),
                               Event("assign", s.value, s.field)>>,
                    m.result)
       ELSE Machine("done", m.ip, r.counter, SubSeq(m.scope, 1, k - 1),
                    Append(m.log, Event("eval", s.value, "")), <<m.scope[k][s.id]>>)

\* A faulty variant of ExecAssign: the place is written before the value of the
\* clause is evaluated.
ExecAssignStoreFirst(s, m) ==
    LET r == Eval(s.value, m.scope, m.counter)
        k == Lookup(s.id, m.scope)
    IN IF r.ok
       THEN Machine("running", m.ip + 1, r.counter,
                    [m.scope EXCEPT ![k][s.id][s.field] = r.val],
                    m.log \o <<Event("assign", s.value, s.field),
                               Event("eval", s.value, "")>>,
                    m.result)
       ELSE Machine("panicked", m.ip, r.counter, SubSeq(m.scope, 1, k - 1),
                    Append(m.log, Event("assign", s.value, s.field)), m.result)

\* `$item.$field = $value;`: evaluate the value, then store it in the field
\* of the struct the place resolves to.  A value that panics unwinds the
\* block: its frame is dropped and nothing is yielded.
ExecAssign(s, m) ==
    LET r == Eval(s.value, m.scope, m.counter)
        k == Lookup(s.id, m.scope)
    IN IF r.ok
       THEN Machine("running", m.ip + 1, r.counter,
                    [m.scope EXCEPT ![k][s.id][s.field] = r.val],
                    m.log \o <<Event("eval", s.value, ""),
                               Event("assign", s.value, s.field)>>,
                    m.result)
       ELSE Machine("panicked", m.ip, r.counter, SubSeq(m.scope, 1, k - 1),
                    Append(m.log, Event("eval", s.value, "")), m.result)

\* The tail expression `item`: the block's value is the local; the block's
\* frame ends.
ExecYield(s, m) ==
    LET k == Lookup(s.id, m.scope)
    IN Machine("done", m.ip + 1, m.counter, SubSeq(m.scope, 1, k - 1),
               Append(m.log, Event("yield", NoExpr, "")),
               <<m.scope[k][s.id]>>)

\* One statement of a block.
ExecStmt(s, m) ==
    CASE s.op = "let" -> ExecLet(s, m)
      [] s.op = "assign" -> ExecAssign(s, m)
      [] OTHER -> ExecYield(s, m)

\* A block evaluated to its end.
RECURSIVE RunBody(_, _)
RunBody(b, m) ==
    IF m.pc \notin {"ready", "running"} \/ m.ip > Len(b)
    THEN m
    ELSE RunBody(b, ExecStmt(b[m.ip], m))

Fresh(p) == Machine(p, 1, 0, <<CallFrame>>, <<>>, <<>>)

\* A block written at the call site: checked by the host, then evaluated.
RunBlock(b) ==
    IF HostAccepts(b, <<CallFrame>>) THEN RunBody(b, Fresh("ready"))
    ELSE Fresh("host_error")

\* An invocation from source text to its end.
Outcome(i) ==
    IF MatchesMain(i) THEN RunBlock(ExpandMain(i)) ELSE Fresh("rejected")

\* --------------------------------- the hand-written forms of the macro doc
\* The value expression of a clause as written by its author: e of `f: e`,
\* the variable f of the bare `f`.
ClauseExpr(c) == IF c.hasValue THEN c.value ELSE Var(c.field)

\* "The same thing using mutation explicitly": the block
\* `{ let mut item = base; item.f1 = e1; ...; item }` typed at the call site,
\* so that its `item` is a call-site identifier.
ExplicitBody(i) ==
    <<Stmt("let", Ident("item", "call"), "", i.base)>>
    \o [k \in 1..Len(i.clauses) |->
          Stmt("assign", Ident("item", "call"), i.clauses[k].field.name,
               ClauseExpr(i.clauses[k]))]
    \o <<Stmt("yield", Ident("item", "call"), "", NoExpr)>>

ExplicitBlock(i) == RunBlock(ExplicitBody(i))

\* The expressions es[1..k] evaluated at the call site one after the other,
\* starting with the counter at cnt: whether all yield, their values, the
\* counter afterwards.
RECURSIVE EvalInOrder(_, _, _)
EvalInOrder(es, k, cnt) ==
    IF k = 0 THEN [ok |-> TRUE, vals |-> <<>>, counter |-> cnt]
    ELSE LET p == EvalInOrder(es, k - 1, cnt)
             r == Eval(es[k], <<CallFrame>>, p.counter)
         IN IF ~p.ok THEN p
            ELSE [ok |-> r.ok,
                  vals |-> IF r.ok THEN Append(p.vals, r.val) ELSE p.vals,
                  counter |-> r.counter]

\* "The same thing using struct update syntax": `T { f1: e1, ..., ..base }`.
\* The host rejects a field named twice and an unknown variable; the field
\* expressions are evaluated in the order written and the base expression
\* after them; the value takes the named fields from the field expressions
\* and the others from the base.
StructUpdate(i) ==
    LET n == Len(i.clauses)
        es == [k \in 1..n |-> ClauseExpr(i.clauses[k])]
        named(f) == {k \in 1..n : i.clauses[k].field.name = f}
        accepted ==
            /\ \A f \in Fields : Cardinality(named(f)) <= 1
            /\ \A k \in 1..n :
                  es[k].kind = "var" => Lookup(es[k].id, <<CallFrame>>) # 0
        fs == EvalInOrder(es, n, 0)
        b == Eval(i.base, <<CallFrame>>, fs.counter)
    IN IF ~accepted THEN Fresh("host_error")
       ELSE IF ~fs.ok THEN Machine("panicked", 1, fs.counter, <<CallFrame>>, <<>>, <<>>)
       ELSE Machine("done", 1, b.counter, <<CallFrame>>, <<>>,
                    <<[f \in Fields |->
                         IF named(f) = {} THEN b.val[f]
                         ELSE fs.vals[CHOOSE k \in named(f) : TRUE]]>>)

\* ------------------------------------------------------------------- state
VARIABLES
    inv,      \* the invocation in the source text
    pc,       \* "source", "rejected" (no arm matches), "expanded",
              \* "host_error", "ready", "running", "panicked", "done"
    body,     \* the expansion, <<>> while there is none
    ip,       \* index in body of the next statement
    counter,  \* the state the side effects of expressions act on
    scope,    \* the stack of scope frames, the call site's first
    log,      \* the evaluations and stores done so far, in order
    result    \* <<v>> once the invocation has the value v, else <<>>

vars == <<inv, pc, body, ip, counter, scope, log, result>>

Cur == Machine(pc, ip, counter, scope, log, result)

Become(m) ==
    /\ pc' = m.pc
    /\ ip' = m.ip
    /\ counter' = m.counter
    /\ scope' = m.scope
    /\ log' = m.log
    /\ result' = m.result

Init ==
    /\ inv \in Invocations
    /\ pc = "source"
    /\ body = <<>>
    /\ ip = 1
    /\ counter = 0
    /\ scope = <<CallFrame>>
    /\ log = <<>>
    /\ result = <<>>

\* Macro expansion of an invocation that matches arm 1.
Expand ==
    /\ pc = "source"
    /\ MatchesMain(inv)
    /\ pc' = "expanded"
    /\ body' = ExpandMain(inv)
    /\ UNCHANGED <<inv, ip, counter, scope, log, result>>

\* No arm matches: the compiler reports the error and emits nothing.
Reject ==
    /\ pc = "source"
    /\ ~MatchesMain(inv)
    /\ pc' = "rejected"
    /\ UNCHANGED <<inv, body, ip, counter, scope, log, result>>

\* The host compiler's analysis of the expansion.
HostCheck ==
    /\ pc = "expanded"
    /\ pc' = IF HostAccepts(body, scope) THEN "ready" ELSE "host_error"
    /\ UNCHANGED <<inv, body, ip, counter, scope, log, result>>

Bind ==
    /\ pc \in {"ready", "running"}
    /\ ip <= Len(body)
    /\ body[ip].op = "let"
    /\ Become(ExecLet(body[ip], Cur))
    /\ UNCHANGED <<inv, body>>

AssignField ==
    /\ pc = "running"
    /\ ip <= Len(body)
    /\ body[ip].op = "assign"
    /\ Become(ExecAssign(body[ip], Cur))
    /\ UNCHANGED <<inv, body>>

Yield ==
    /\ pc = "running"
    /\ ip <= Len(body)
    /\ body[ip].op = "yield"
    /\ Become(ExecYield(body[ip], Cur))
    /\ UNCHANGED <<inv, body>>

Next == Expand \/ Reject \/ HostCheck \/ Bind \/ AssignField \/ Yield

Spec == Init /\ [][Next]_vars

\* ------------------------------------------------ notions the claims share
Terminal == pc \in {"rejected", "host_error", "panicked", "done"}

NumClauses == Len(inv.clauses)

FieldName(i, k) == i.clauses[k].field.name

DistinctFields(i) ==
    \A j, k \in 1..Len(i.clauses) : j # k => FieldName(i, j) # FieldName(i, k)

\* The value of the base expression, evaluated at the call site before
\* anything else.
BaseValue(i) == Eval(i.base, <<CallFrame>>, 0)

ClauseExprs(i) == [k \in 1..Len(i.clauses) |-> ClauseExpr(i.clauses[k])]

\* The evaluated values e1..en of the clauses, base first.
EvaluatedValues(i) ==
    EvalInOrder(ClauseExprs(i), Len(i.clauses), BaseValue(i).counter).vals

\* The last clause that names field f, 0 when none does.
LastClauseOf(i, f) ==
    LET ks == {k \in 1..Len(i.clauses) : FieldName(i, k) = f}
    IN IF ks = {} THEN 0 ELSE CHOOSE k \in ks : \A j \in ks : j <= k

\* ------------------------------------------------------------------ claims

\* C1. Field-override correctness: when the clause list names pairwise
\* distinct fields, the value of the invocation has each named field equal
\* to the evaluated value of its clause and every other field equal to its
\* value in the base.
C1_FieldOverride ==
    (pc = "done" /\ DistinctFields(inv)) =>
        /\ \A k \in 1..NumClauses :
              result[1][FieldName(inv, k)] = EvaluatedValues(inv)[k]
        /\ \A f \in Fields :
              LastClauseOf(inv, f) = 0 => result[1][f] = BaseValue(inv).val[f]

\* Two distinct fields overridden by literals, a third left as in the base.
C1_Witness ==
    /\ pc = "done"
    /\ NumClauses = 2
    /\ FieldName(inv, 1) = "a" /\ inv.clauses[1].value = Lit(1)
    /\ FieldName(inv, 2) = "b" /\ inv.clauses[2].value = Tick
    /\ result[1] = [DefaultStruct EXCEPT !.a = 1, !.b = 1]

BaseEvaluations == Cardinality({k \in DOMAIN log : log[k].ev = "base"})

\* C2. Single evaluation: once the expansion has started, the base
\* expression has been evaluated exactly once, whatever the number of
\* clauses; a base that bumps the counter has bumped it by exactly one more
\* than the value expressions did.
C2_SingleEvaluation ==
    /\ pc \in {"source", "rejected", "expanded", "host_error", "ready"} =>
          BaseEvaluations = 0
    /\ pc \in {"running", "panicked", "done"} => BaseEvaluations = 1
    /\ (pc = "done" /\ inv.base = NewExpr) =>
          counter = 1 + Cardinality({k \in 1..NumClauses :
                                       ClauseExpr(inv.clauses[k]) = Tick})

\* A side-effecting base followed by two clauses: the counter moved by one.
C2_Witness ==
    /\ pc = "done"
    /\ inv.base = NewExpr
    /\ NumClauses = 2
    /\ counter = 1

\* C4. Rejection without partial expansion: an invocation with an empty
\* clause list is never expanded; it ends rejected, with no statement
\* emitted, the base not evaluated, no field assigned and no value.
C4_Rejection ==
    NumClauses = 0 =>
        /\ pc \in {"source", "rejected"}
        /\ body = <<>>
        /\ log = <<>>
        /\ counter = 0
        /\ result = <<>>
        /\ scope = <<CallFrame>>

C4_Witness ==
    /\ NumClauses = 0
    /\ pc = "rejected"
    /\ inv.base = NewExpr

\* C6. Duplicate-clause last-write-wins: a clause list that names a field
\* twice is accepted by the macro, and in the resulting value every field
\* holds the evaluated value of the last clause that names it (the base's
\* value when no clause names it), whatever earlier clauses stored.
C6_LastWriteWins ==
    ~DistinctFields(inv) =>
        /\ pc # "rejected"
        /\ pc = "done" =>
              \A f \in Fields :
                 result[1][f] =
                    IF LastClauseOf(inv, f) = 0 THEN BaseValue(inv).val[f]
                    ELSE EvaluatedValues(inv)[LastClauseOf(inv, f)]

\* `a: <tick>, a: <item>`: field a holds the later value, 7, not the 1 the
\* first clause stored.
C6_Witness ==
    /\ pc = "done"
    /\ NumClauses = 2
    /\ FieldName(inv, 1) = "a" /\ FieldName(inv, 2) = "a"
    /\ inv.clauses[1].value = Tick
    /\ inv.clauses[2].value = Var(Ident("item", "call"))
    /\ result[1].a = 7

\* The events of clause k: its value evaluated, then stored.
ClauseEvents(c) ==
    <<Event("eval", ClauseExpr(c), ""), Event("assign", ClauseExpr(c), c.field.name)>>

RECURSIVE ExpectedLog(_, _)
ExpectedLog(i, k) ==
    IF k = 0 THEN <<Event("base", i.base, "")>>
    ELSE ExpectedLog(i, k - 1) \o ClauseEvents(i.clauses[k])

IsPrefix(p, q) == Len(p) <= Len(q) /\ SubSeq(q, 1, Len(p)) = p

\* C9. Evaluation and assignment order: the base is evaluated first; then,
\* clause by clause in source order, the clause's value is evaluated once
\* and stored in its field before the next clause's value is evaluated; the
\* local is yielded only after the last store.
C9_EvaluationOrder ==
    LET full == ExpectedLog(inv, NumClauses) \o <<Event("yield", NoExpr, "")>>
    IN /\ IsPrefix(log, full)
       /\ pc = "done" => log = full
       /\ pc = "running" => Len(log) = 1 + 2 * (ip - 2)
       /\ result # <<>> => log = full

\* Two different clauses, both evaluated and stored, then the yield.
C9_Witness ==
    /\ pc = "done"
    /\ NumClauses = 2
    /\ inv.clauses[1] # inv.clauses[2]
    /\ Len(log) = 6
    /\ log[2].ev = "eval" /\ log[3].ev = "assign"
    /\ log[4].ev = "eval" /\ log[5].ev = "assign"

\* The names of call-site variables an invocation's clauses refer to.
NamesUsed(i) ==
    {ClauseExpr(i.clauses[k]).id : k \in {j \in 1..Len(i.clauses) :
                                          ClauseExpr(i.clauses[j]).kind = "var"}}

ItemAtCall == Ident("item", "call")

\* C10. Hygiene of the bound local: the local of the expansion is no name
\* of the call site; an invocation whose variables are all in scope at the
\* call site is accepted by the host even when one of them is called
\* `item`; a field whose last clause is `f: item` or the bare `item` holds
\* the value of the call site's `item`; and the call site's bindings are
\* the same during and after the invocation.
C10_Hygiene ==
    /\ body # <<>> => body[1].id \notin DOMAIN CallFrame
    /\ (NamesUsed(inv) \subseteq DOMAIN CallFrame) => pc # "host_error"
    /\ pc = "done" =>
          \A f \in Fields :
             (/\ LastClauseOf(inv, f) # 0
              /\ ClauseExpr(inv.clauses[LastClauseOf(inv, f)]) = Var(ItemAtCall))
             => result[1][f] = CallFrame[ItemAtCall]
    /\ scope[1] = CallFrame
    /\ Terminal => scope = <<CallFrame>>

\* `a: item` and the bare `item` in one invocation.
C10_Witness ==
    /\ pc = "done"
    /\ NumClauses = 2
    /\ inv.clauses[1] = Clause(Ident("a", "call"), TRUE, Var(ItemAtCall))
    /\ inv.clauses[2] = Clause(ItemAtCall, FALSE, NoExpr)
    /\ result[1].a = 7 /\ result[1].item = 7
    /\ scope[1][ItemAtCall] = 7

HasShorthand(i) == \E k \in 1..Len(i.clauses) : ~i.clauses[k].hasValue

\* The invocation with every bare `f` written out as `f: f`.
Desugared(i) ==
    [i EXCEPT !.clauses = [k \in 1..Len(i.clauses) |->
        Clause(i.clauses[k].field, TRUE, ClauseExpr(i.clauses[k]))]]

\* C3. Shorthand equivalence: an invocation with bare clauses `f`, in any
\* position and mixed with full clauses, ends as the invocation with each
\* of them written `f: f` does: the same acceptance, the same value, the
\* same side effects in the same order.
C3_ShorthandEquivalence ==
    (Terminal /\ HasShorthand(inv)) =>
        LET o == Outcome(Desugared(inv))
        IN /\ pc = o.pc
           /\ result = o.result
           /\ counter = o.counter
           /\ log = o.log

\* `{ b: 1, a }` with a = 5 in scope.
C3_Witness ==
    /\ pc = "done"
    /\ NumClauses = 2
    /\ inv.clauses[1] = Clause(Ident("b", "call"), TRUE, Lit(1))
    /\ inv.clauses[2] = Clause(Ident("a", "call"), FALSE, NoExpr)
    /\ result[1].a = 5 /\ result[1].b = 1

MentionsItem(i) == Ident("item", "call") \in NamesUsed(i)

HasEffect(e) == e.kind \in {"tick", "new", "panic"}

ValuesHaveEffect(i) ==
    \E k \in 1..Len(i.clauses) : HasEffect(ClauseExpr(i.clauses[k]))

Perms(n) == {p \in [1..n -> 1..n] : \A j, k \in 1..n : j # k => p[j] # p[k]}

Permuted(i, p) == [i EXCEPT !.clauses = [k \in 1..Len(i.clauses) |-> i.clauses[p[k]]]]

SameUnderEveryOrder ==
    \A p \in Perms(NumClauses) :
       Outcome(Permuted(inv, p)).pc = "done" /\ Outcome(Permuted(inv, p)).result = result

\* C7 as claimed: for a clause list touching pairwise distinct fields every
\* permutation of the clauses yields the same value.
C7_AsClaimed ==
    (pc = "done" /\ DistinctFields(inv)) => SameUnderEveryOrder

\* C7 amended: for a clause list touching pairwise distinct fields in which
\* no value expression's value depends on the side effect of another (here:
\* at most one value expression acts on the counter), every permutation of
\* the clauses yields the same value.
C7_OrderIndependence ==
    (/\ pc = "done"
     /\ DistinctFields(inv)
     /\ Cardinality({k \in 1..NumClauses : HasEffect(ClauseExpr(inv.clauses[k]))}) <= 1)
    => SameUnderEveryOrder

\* Two different fields, one value with a side effect, one without.
C7_Witness ==
    /\ pc = "done"
    /\ NumClauses = 2
    /\ FieldName(inv, 1) = "b" /\ inv.clauses[1].value = Tick
    /\ FieldName(inv, 2) = "a" /\ inv.clauses[2].value = Lit(1)
    /\ inv.base = NewExpr
    /\ result[1].a = 1 /\ result[1].b = 2

Compiled == pc \in {"ready", "running", "panicked", "done"}

Stores == Cardinality({k \in DOMAIN log : log[k].ev = "assign"})

====
